---------------------------- MODULE Spec2Model ----------------------------
(***************************************************************************)
(* A model of the TransmitanceSuite python package:                        *)
(*   source/TransmitanceMeas.py      the ratio measurement (base class)    *)
(*   source/TransmitanceMeas1D.py    the 1-D aligned measurement, its      *)
(*                                   factories and its array utilities     *)
(*                                                                         *)
(* Python values are modelled as follows.                                  *)
(*  - a float is an exact rational <<n, d>> in lowest terms with d > 0;    *)
(*    <<1,0>>, <<-1,0>> and <<0,0>> are IEEE inf, -inf and nan, which      *)
(*    numpy produces when it divides by zero;                              *)
(*  - an array-like value is a record [type, shape, data]: type is the     *)
(*    python type ("ndarray", "list", "float", "None"), shape is           *)
(*    numpy.shape of the value and data its entries in row-major order;    *)
(*    type "unset" stands for an attribute that was never assigned, whose  *)
(*    read raises AttributeError;                                          *)
(*  - a callable is a record [type, x, y, popt]: a scipy CubicSpline over  *)
(*    the knots (x, y), or the numpy.vectorize'd fit popt[1]*(popt[2]+f)   *)
(*    of the template spline f over the knots (x, y);                      *)
(*  - an instance is the record of its attributes.                         *)
(***************************************************************************)
EXTENDS Integers, Sequences, FiniteSets, TLC

VARIABLES call,    \* the last call made by the caller: its name and arguments
          made,    \* the constructor or factory call that made obj
          obj,     \* the instance the caller holds (obj.cls = "none": no instance)
          ret,     \* what the last call returned
          exc,     \* the exception the last call raised ("" when it returned)
          route,   \* from_files: the construction route it took
          parses,  \* from_files/default_parser: the parser calls made, with results
          passed,  \* the array passed to a utility, as the call left it
          caller,  \* what the caller keeps of a construction: the arrays it
                   \* passed, as they are now, the instance as it was
                   \* returned, and the sums of the corrections it applied
          colls,   \* the outcome of each collection constructor call, in order
          next_id_ \* the next_id_ attribute of each class that has one

vars == <<call, made, obj, ret, exc, route, parses, passed, caller, colls, next_id_>>

---------------------------------------------------------------------------
(* Bounds of the model.                                                    *)

\* longest 1-D array handed to a constructor or to from_ragged_data
MaxLen == 3

\* largest side of a 2-D array handed to the array utilities
MaxDim == 3

\* the number of corrections the caller applies to an instance
MaxCorrections == 2

\* the number of collection constructor calls, and the size of a collection
MaxColls == 2
MaxMembers == 2

---------------------------------------------------------------------------
(* Floats as exact rationals.                                              *)

Abs(n) == IF n < 0 THEN -n ELSE n

Sgn(n) == IF n < 0 THEN -1 ELSE IF n = 0 THEN 0 ELSE 1

\* Euclid's algorithm, as a function of two naturals
GCD[a \in Nat, b \in Nat] == IF b = 0 THEN a ELSE GCD[b, a % b]

\* The arithmetic is defined as functions, whose arguments are values.
Rational == Int \X Int

\* the float n/d; a zero denominator gives inf, -inf or nan
Frac[n \in Int, d \in Int] ==
    IF d = 0 THEN <<Sgn(n), 0>>
    ELSE LET g == GCD[Abs(n), Abs(d)]
             s == Sgn(d)
         IN  <<(s * n) \div g, (s * d) \div g>>

Float(k) == <<k, 1>>

RAdd[a \in Rational, b \in Rational] == Frac[a[1] * b[2] + b[1] * a[2], a[2] * b[2]]
RSub[a \in Rational, b \in Rational] == Frac[a[1] * b[2] - b[1] * a[2], a[2] * b[2]]
RMul[a \in Rational, b \in Rational] == Frac[a[1] * b[1], a[2] * b[2]]
RDiv[a \in Rational, b \in Rational] == Frac[a[1] * b[2], a[2] * b[1]]
RLess(a, b) == a[1] * b[2] < b[1] * a[2]
IsFinite(a) == a[2] > 0

---------------------------------------------------------------------------
(* Array-like values and the numpy operations the code uses.               *)

NdArray(shape, data) == [type |-> "ndarray", shape |-> shape, data |-> data]
PyList(shape, data) == [type |-> "list", shape |-> shape, data |-> data]
PyFloat(v) == [type |-> "float", shape |-> <<>>, data |-> <<v>>]
PyNone == [type |-> "None", shape |-> <<>>, data |-> <<>>]
Unset == [type |-> "unset", shape |-> <<>>, data |-> <<>>]

\* the value `-1.` the code returns on its error paths
Sentinel == PyFloat(Float(-1))

IsNdArray(a) == a.type = "ndarray"

np_shape(a) == a.shape
np_ndim(a) == Len(a.shape)

\* a 1-D ndarray of the given entries
Arr1(data) == NdArray(<<Len(data)>>, data)

\* entry (r, c), counted from 0, of a 2-D array
At2(a, r, c) == a.data[r * a.shape[2] + c + 1]

\* column c / row r of a 2-D array, as a sequence
Column(a, c) == [r \in 1..a.shape[1] |-> At2(a, r - 1, c)]
Row(a, r) == [c \in 1..a.shape[2] |-> At2(a, r, c - 1)]

\* array + scalar: a new array
AddScalar(a, off) == NdArray(a.shape, [k \in 1..Len(a.data) |-> RAdd[a.data[k], off]])

\* array / array, entrywise, of two arrays of one shape
Divide(a, b) == NdArray(a.shape, [k \in 1..Len(a.data) |-> RDiv[a.data[k], b.data[k]]])

---------------------------------------------------------------------------
(* Callables: scipy.interpolate.CubicSpline and the fitted template.       *)

NoCallable == [type |-> "None", x |-> <<>>, y |-> <<>>, popt |-> <<>>]
UnsetCallable == [type |-> "unset", x |-> <<>>, y |-> <<>>, popt |-> <<>>]

StrictlyIncreasing(x) == \A i \in 1..(Len(x) - 1) : RLess(x[i], x[i + 1])

\* CubicSpline(x, y) raises ValueError unless x has at least two entries
\* and is strictly increasing
CubicSplineRaises(x, y) == Len(x) < 2 \/ Len(x) # Len(y) \/ ~StrictlyIncreasing(x)

CubicSpline(x, y) == [type |-> "CubicSpline", x |-> x, y |-> y, popt |-> <<>>]

\* The default (not-a-knot) spline over two, three or four knots is the
\* line, the parabola, the cubic through them (the model hands CubicSpline
\* at most four knots); its value at t, in Newton's form
SplineEval[x \in Seq(Rational), y \in Seq(Rational), t \in Rational] ==
    LET n == Len(x)
        d12 == RDiv[RSub[y[2], y[1]], RSub[x[2], x[1]]]
        d23 == RDiv[RSub[y[3], y[2]], RSub[x[3], x[2]]]
        d34 == RDiv[RSub[y[4], y[3]], RSub[x[4], x[3]]]
        d123 == RDiv[RSub[d23, d12], RSub[x[3], x[1]]]
        d234 == RDiv[RSub[d34, d23], RSub[x[4], x[2]]]
        d1234 == RDiv[RSub[d234, d123], RSub[x[4], x[1]]]
        c3 == IF n >= 4 THEN RMul[RSub[t, x[3]], d1234] ELSE Float(0)
        c2 == IF n >= 3 THEN RMul[RSub[t, x[2]], RAdd[d123, c3]] ELSE Float(0)
    IN  RAdd[y[1], RMul[RSub[t, x[1]], RAdd[d12, c2]]]

\* f(t) for a callable f
CallAt(f, t) ==
    IF f.type = "CubicSpline" THEN SplineEval[f.x, f.y, t]
    ELSE RMul[f.popt[1], RAdd[f.popt[2], SplineEval[f.x, f.y, t]]]

\* f(a) for a 1-D array a: the array of the values
CallOn(f, a) == NdArray(a.shape, [k \in 1..Len(a.data) |-> CallAt(f, a.data[k])])

---------------------------------------------------------------------------
(* Instances, and what calling a class does with __init__'s return value.  *)

\* object.__new__: an instance none of whose attributes is assigned.
\* aliases names, for an array attribute, the parameter of __init__ whose
\* array object the attribute is ("" when the attribute is an array of its
\* own, as the result of ref + ref_offset is)
NoInstance ==
    [cls |-> "none", ref_ |-> Unset, meas_ |-> Unset, dep_ |-> Unset,
     dep_is_available_ |-> "unset", raw_ref_ |-> Unset, raw_meas_ |-> Unset,
     fInterpolator_ |-> "unset", refInterpolator_ |-> UnsetCallable,
     transmitance_ |-> Unset,
     aliases |-> [ref_ |-> "", meas_ |-> "", dep_ |-> ""]]

NewInstance(cls) == [NoInstance EXCEPT !.cls = cls]

\* what a method body hands back: the instance as it left it, the value it
\* returned and the exception it raised ("" when it returned)
Outcome(self, val, e) == [self |-> self, ret |-> val, exc |-> e]

\* cls(...): python raises TypeError when __init__ returns anything but
\* None, which is what the `return -1.` of the error paths does; the caller
\* then gets no instance
Instantiate(r) ==
    IF r.exc # "" THEN [obj |-> NoInstance, ret |-> PyNone, exc |-> r.exc]
    ELSE IF r.ret.type # "None"
         THEN [obj |-> NoInstance, ret |-> PyNone, exc |-> "TypeError"]
    ELSE [obj |-> r.self, ret |-> PyNone, exc |-> ""]

---------------------------------------------------------------------------
(* class TransmitanceMeas                                                  *)

TransmitanceMeas_init_NoShapeCheck(self, ref, meas, ref_offset, meas_offset, dep) ==
    IF ~IsNdArray(ref) \/ ~IsNdArray(meas) THEN Outcome(self, Sentinel, "")
    ELSE Outcome([self EXCEPT !.dep_is_available_ =
                                  IF dep.type = "None" THEN "False" ELSE "True",
                              !.dep_ = IF dep.type = "None" THEN @ ELSE dep,
                              !.aliases.dep_ = IF dep.type = "None" THEN @ ELSE "dep",
                              !.ref_ = AddScalar(ref, ref_offset),
                              !.meas_ = AddScalar(meas, meas_offset)],
                 PyNone, "")

TransmitanceMeas_init(self, ref, meas, ref_offset, meas_offset, dep) ==
    IF ~IsNdArray(ref) \/ ~IsNdArray(meas) THEN Outcome(self, Sentinel, "")
    ELSE IF np_shape(ref) # np_shape(meas) THEN Outcome(self, Sentinel, "")
    ELSE LET s1 == [self EXCEPT !.dep_is_available_ = "False"]
         IN  IF dep.type # "None" /\ np_shape(dep) # np_shape(ref)
             THEN Outcome(s1, Sentinel, "")
             ELSE LET s2 == IF dep.type # "None"
                            THEN [s1 EXCEPT !.dep_ = dep,
                                            !.aliases.dep_ = "dep",
                                            !.dep_is_available_ = "True"]
                            ELSE s1
                  IN  Outcome([s2 EXCEPT !.ref_ = AddScalar(ref, ref_offset),
                                         !.meas_ = AddScalar(meas, meas_offset)],
                              PyNone, "")

\* the attributes check_compatibility reads; reading one that was never
\* assigned raises AttributeError
CompatibilityReadable(self) ==
    /\ self.dep_is_available_ # "unset"
    /\ self.ref_.type # "unset"
    /\ self.meas_.type # "unset"

check_compatibility(self) ==
    IF self.dep_is_available_ = "True"
    THEN np_shape(self.ref_) = np_shape(self.meas_)
         /\ np_shape(self.ref_) = np_shape(self.dep_)
    ELSE np_shape(self.ref_) = np_shape(self.meas_)

\* self.ref_ += offset and self.meas_ += offset: the addition in place
correct_ref_and_meas(self, offset) ==
    IF self.ref_.type = "unset" THEN Outcome(self, PyNone, "AttributeError")
    ELSE Outcome([self EXCEPT !.ref_ = AddScalar(@, offset),
                              !.meas_ = AddScalar(@, offset)], PyNone, "")

correct_ref(self, offset) ==
    IF self.ref_.type = "unset" THEN Outcome(self, PyNone, "AttributeError")
    ELSE Outcome([self EXCEPT !.ref_ = AddScalar(@, offset)], PyNone, "")

correct_meas(self, offset) ==
    IF self.meas_.type = "unset" THEN Outcome(self, PyNone, "AttributeError")
    ELSE Outcome([self EXCEPT !.meas_ = AddScalar(@, offset)], PyNone, "")

InvertedRatio(self) == Divide(self.ref_, self.meas_)

\* self.meas_/self.ref_
Ratio(self) == Divide(self.meas_, self.ref_)

get_transmitance(self) ==
    IF ~CompatibilityReadable(self) THEN Outcome(self, PyNone, "AttributeError")
    ELSE IF check_compatibility(self)
         THEN LET t == Ratio(self)
              IN  Outcome([self EXCEPT !.transmitance_ = t], t, "")
         ELSE Outcome(self, Sentinel, "")

---------------------------------------------------------------------------
(* class TransmitanceMeas1D(TransmitanceMeas)                              *)

TransmitanceMeas1D_init(self, ref, meas, ref_offset, meas_offset, dep, raw_ref, raw_meas, refInterpolator) ==
    IF np_ndim(ref) # 1 THEN Outcome(self, Sentinel, "")
    ELSE IF np_shape(ref) # np_shape(meas) THEN Outcome(self, Sentinel, "")
    ELSE IF dep.type # "None" /\ np_shape(ref) # np_shape(dep)
         THEN Outcome(self, Sentinel, "")
    ELSE
      LET s1 == [self EXCEPT !.raw_ref_ = raw_ref, !.raw_meas_ = raw_meas]
          \* line 72 assigns the spline to fInterpolator_ and line 73
          \* overwrites it with True: refInterpolator_ is not assigned
          s2 == IF refInterpolator.type = "None"
                THEN [s1 EXCEPT !.fInterpolator_ =
                                    IF dep.type = "None" THEN "False" ELSE "True"]
                ELSE [s1 EXCEPT !.fInterpolator_ = "True",
                                !.refInterpolator_ = refInterpolator]
      IN  IF /\ refInterpolator.type = "None"
             /\ dep.type # "None"
             /\ CubicSplineRaises(dep.data, ref.data)
          THEN Outcome(s1, PyNone, "ValueError")
          \* the value super().__init__ returns is dropped
          ELSE Outcome(TransmitanceMeas_init(s2, ref, meas, ref_offset,
                                             meas_offset, dep).self,
                       PyNone, "")

\* the callable it returns (None when it only prints) and the exception
get_refInterpolator(self) ==
    IF self.fInterpolator_ = "unset"
    THEN [fn |-> NoCallable, exc |-> "AttributeError"]
    ELSE IF self.fInterpolator_ = "True"
         THEN IF self.refInterpolator_.type = "unset"
              THEN [fn |-> NoCallable, exc |-> "AttributeError"]
              ELSE [fn |-> self.refInterpolator_, exc |-> ""]
         ELSE [fn |-> NoCallable, exc |-> ""]

---------------------------------------------------------------------------
(* The stacking utility.                                                   *)

\* numpy.expand_dims of a 1-D array: a row (axis 0) or a column (axis 1)
expand_dims(a, axis) ==
    IF axis = 0 THEN NdArray(<<1, a.shape[1]>>, a.data)
    ELSE NdArray(<<a.shape[1], 1>>, a.data)

\* numpy.concatenate of two 2-D arrays that agree along the other axis
concatenate(a, b, axis) ==
    IF axis = 0
    THEN NdArray(<<a.shape[1] + b.shape[1], a.shape[2]>>, a.data \o b.data)
    ELSE LET ca == a.shape[2]
             cb == b.shape[2]
             nr == a.shape[1]
         IN  NdArray(<<nr, ca + cb>>,
                     [k \in 1..(nr * (ca + cb)) |->
                         LET r == (k - 1) \div (ca + cb)
                             c == (k - 1) % (ca + cb)
                         IN  IF c < ca THEN At2(a, r, c) ELSE At2(b, r, c - ca)])

\* shape[not axis]
OtherLen(a, axis) == a.shape[IF axis = 0 THEN 2 ELSE 1]

stick_together(arr1, arr2, axis) ==
    IF ~IsNdArray(arr1) \/ ~IsNdArray(arr2) THEN Sentinel
    ELSE IF np_ndim(arr1) > 2 \/ np_ndim(arr2) > 2 THEN Sentinel
    ELSE IF np_ndim(arr1) * np_ndim(arr2) = 4
         THEN IF OtherLen(arr1, axis) # OtherLen(arr2, axis) THEN Sentinel
              ELSE concatenate(arr1, arr2, axis)
    ELSE IF np_ndim(arr1) * np_ndim(arr2) = 2
         THEN LET unid_array == IF np_ndim(arr1) = 1 THEN arr1 ELSE arr2
                  bid_array == IF np_ndim(arr1) = 1 THEN arr2 ELSE arr1
              IN  IF unid_array.shape[1] # OtherLen(bid_array, axis) THEN Sentinel
                  ELSE concatenate(expand_dims(unid_array, axis), bid_array, axis)
    ELSE IF arr1.shape[1] # arr2.shape[1] THEN Sentinel
         ELSE concatenate(expand_dims(arr1, axis), expand_dims(arr2, axis), axis)

---------------------------------------------------------------------------
(* scipy.optimize.curve_fit of sca*(off + f(x)) to the points (x, y).      *)

RSum[s \in Seq(Rational)] ==
    IF s = <<>> THEN Float(0) ELSE RAdd[Head(s), RSum[Tail(s)]]

TemplateAt(f, x) == [i \in 1..Len(x) |-> CallAt(f, x[i])]

Products(u, v) == [i \in 1..Len(u) |-> RMul[u[i], v[i]]]

\* the least-squares line a*u + b through the points (u, v): its slope a
\* times the denominator n*Suu - Su*Su, and that denominator
SlopeNumerator[u \in Seq(Rational), v \in Seq(Rational)] ==
    RSub[RMul[Float(Len(u)), RSum[Products(u, v)]], RMul[RSum[u], RSum[v]]]

SlopeDenominator[u \in Seq(Rational)] ==
    RSub[RMul[Float(Len(u)), RSum[Products(u, u)]], RMul[RSum[u], RSum[u]]]

Intercept[u \in Seq(Rational), v \in Seq(Rational), a \in Rational] ==
    RDiv[RSub[RSum[v], RMul[a, RSum[u]]], Float(Len(u))]

\* curve_fit raises TypeError with fewer points than parameters
CurveFitRaises(x, y) == Len(x) < 2

\* the least-squares problem has one solution, with a nonzero scale
FitWellPosed(f, x, y) ==
    /\ SlopeDenominator[TemplateAt(f, x)] # Float(0)
    /\ SlopeNumerator[TemplateAt(f, x), y] # Float(0)

\* popt = <<sca, off>> with sca = a and sca*off = b
Popt[u \in Seq(Rational), v \in Seq(Rational), a \in Rational] ==
    <<a, RDiv[Intercept[u, v, a], a]>>

curve_fit(f, x, y) ==
    Popt[TemplateAt(f, x), y,
         RDiv[SlopeNumerator[TemplateAt(f, x), y], SlopeDenominator[TemplateAt(f, x)]]]

Vectorized(f, popt) == [type |-> "vectorize", x |-> f.x, y |-> f.y, popt |-> popt]

---------------------------------------------------------------------------
(* The ragged-reconciliation factory.                                      *)

OffsetFilteredTwice(meas, meas_offset) ==
    AddScalar(AddScalar(meas, meas_offset), meas_offset)

\* line 160: meas = meas + meas_offset
OffsetFiltered(meas, meas_offset) == AddScalar(meas, meas_offset)

\* what a factory hands back: the instance (ret is then PyNone), or the
\* value it returned instead of one, or the exception it raised
Made(o, val, e) == [obj |-> o, ret |-> val, exc |-> e]


\* lines 152-157: the reference model, or the exception building it raises
ReferenceModelRaises(raw_dep_ref, raw_ref, ref_ref_func) ==
    IF ref_ref_func.type = "None"
    THEN IF CubicSplineRaises(raw_dep_ref.data, raw_ref.data) THEN "ValueError" ELSE ""
    ELSE IF CurveFitRaises(raw_dep_ref.data, raw_ref.data) THEN "TypeError" ELSE ""

ReferenceModel(raw_dep_ref, raw_ref, ref_ref_func) ==
    IF ref_ref_func.type = "None"
    THEN CubicSpline(raw_dep_ref.data, raw_ref.data)
    ELSE Vectorized(ref_ref_func, curve_fit(ref_ref_func, raw_dep_ref.data, raw_ref.data))

\* lines 159-166, with meas already offset
Reconcile(raw_dep_ref, raw_ref, dep, meas, ref_func) ==
    \* numpy.vectorize refuses an input of size 0
    IF ref_func.type = "vectorize" /\ Len(dep.data) = 0
    THEN Made(NoInstance, PyNone, "ValueError")
    ELSE Instantiate(TransmitanceMeas1D_init(
             NewInstance("TransmitanceMeas1D"), CallOn(ref_func, dep), meas,
             Float(0), Float(0), dep,
             stick_together(raw_dep_ref, raw_ref, 1),
             stick_together(dep, meas, 0), ref_func))

from_ragged_data(dep_ref, ref, dep_meas, meas, ref_offset, meas_offset, ref_ref_func) ==
    IF ~IsNdArray(dep_ref) \/ ~IsNdArray(ref) \/ ~IsNdArray(dep_meas) \/ ~IsNdArray(meas)
    THEN Made(NoInstance, Sentinel, "")
    ELSE IF np_ndim(dep_ref) # 1 \/ np_ndim(ref) # 1
            \/ np_ndim(dep_meas) # 1 \/ np_ndim(meas) # 1
    THEN Made(NoInstance, Sentinel, "")
    ELSE IF np_shape(dep_ref) # np_shape(ref) \/ np_shape(dep_meas) # np_shape(meas)
    THEN Made(NoInstance, Sentinel, "")
    ELSE IF ReferenceModelRaises(dep_ref, AddScalar(ref, ref_offset), ref_ref_func) # ""
    THEN Made(NoInstance, PyNone,
              ReferenceModelRaises(dep_ref, AddScalar(ref, ref_offset), ref_ref_func))
    \* each intermediate value is computed once
    ELSE CHOOSE made2 \in
             {Reconcile(dep_ref, raw_ref, dep_meas, meas2, ref_func) :
                 raw_ref \in {AddScalar(ref, ref_offset)},
                 meas2 \in {OffsetFiltered(meas, meas_offset)},
                 ref_func \in {ReferenceModel(dep_ref, AddScalar(ref, ref_offset),
                                              ref_ref_func)}} : TRUE

---------------------------------------------------------------------------
(* The sorting utility.                                                    *)

\* numpy.argsort(key): numpy's default sort is not stable, so any
\* permutation of the positions that puts key in non-decreasing order
argsort(key) ==
    {p \in Permutations(1..Len(key)) :
        \A i \in 1..(Len(key) - 1) : ~RLess(key[p[i + 1]], key[p[i]])}

\* a[p, :] and a[:, p] for a 2-D array a and a sequence p of 1-based positions
TakeRows(a, p) ==
    NdArray(a.shape, [k \in 1..Len(a.data) |->
                         At2(a, p[((k - 1) \div a.shape[2]) + 1] - 1, (k - 1) % a.shape[2])])
TakeColumns(a, p) ==
    NdArray(a.shape, [k \in 1..Len(a.data) |->
                         At2(a, (k - 1) \div a.shape[2], p[((k - 1) % a.shape[2]) + 1] - 1)])

\* what a call of the sorting utility leaves: the value returned, whether
\* it is the caller's array object, the exception, the caller's array
Sorted(val, same, e, arr) == [ret |-> val, same |-> same, exc |-> e, bid_array |-> arr]

\* sorted_array is bid_array itself; every column (row) is replaced by its
\* selection at sorting_indices, which permutes the rows (columns) in place
SortedInPlace(bid_array, axis, sorting_indices) ==
    {Sorted(sorted_array, TRUE, "", sorted_array) :
        sorted_array \in {IF axis = 0 THEN TakeRows(bid_array, p)
                          ELSE TakeColumns(bid_array, p) : p \in sorting_indices}}

\* sort_bidimensional_array_mutually(bid_array, axis, line) for a 2-D
\* bid_array: the set of its possible outcomes
sort_bidimensional_array_mutually(bid_array, axis, line) ==
    IF axis # 0 /\ axis # 1 THEN {Sorted(Sentinel, FALSE, "", bid_array)}
    ELSE IF line < 0 THEN {Sorted(Sentinel, FALSE, "", bid_array)}
    ELSE IF axis = 0 /\ line >= np_shape(bid_array)[1]
         THEN {Sorted(Sentinel, FALSE, "", bid_array)}
    ELSE IF axis = 1 /\ line >= np_shape(bid_array)[2]
         THEN {Sorted(Sentinel, FALSE, "", bid_array)}
    ELSE IF axis = 0
         THEN IF line >= np_shape(bid_array)[2]
              THEN {Sorted(PyNone, FALSE, "IndexError", bid_array)}
              ELSE SortedInPlace(bid_array, 0, argsort(Column(bid_array, line)))
    ELSE IF line >= np_shape(bid_array)[1]
         THEN {Sorted(PyNone, FALSE, "IndexError", bid_array)}
         ELSE SortedInPlace(bid_array, 1, argsort(Row(bid_array, line)))

---------------------------------------------------------------------------
(* The file parser.  A file is a record [separator, dark, rows]: the       *)
(* delimiter it is written with, the time stamp, average and STD of its    *)
(* dark-current row (whose fourth field is the text "DC") and its data     *)
(* rows of four numbers: time stamp, average, STD, wavelength.             *)

File(separator, dark, rows) == [separator |-> separator, dark |-> dark, rows |-> rows]
NoFile == File("", <<>>, <<>>)

\* the defaults of default_parser
default_x_col == 3
default_y_col == 1
default_separator == "\t"

\* the record of one parser call: its arguments, and the arrays it
\* returned or the exception it raised
Parsed(filepath, x_col, y_col, separator, dep, val, e) ==
    [filepath |-> filepath, x_col |-> x_col, y_col |-> y_col, separator |-> separator,
     dep |-> dep, val |-> val, exc |-> e]

\* data[1:, :] after data[:, y_col] -= offset, for the table read with the
\* file's own delimiter
DarkSubtracted(filepath, y_col, offset) ==
    NdArray(<<Len(filepath.rows), 4>>,
            [k \in 1..(4 * Len(filepath.rows)) |->
                LET r == ((k - 1) \div 4) + 1
                    c == (k - 1) % 4
                IN  IF c = y_col THEN RSub[filepath.rows[r][c + 1], offset]
                    ELSE filepath.rows[r][c + 1]])

\* default_parser(filepath, x_col, y_col, separator), with columns in 0..3:
\* the set of its possible outcomes.  Read with another delimiter the table
\* has a single column, and data[0,1] raises; the fourth column holds text
\* next to "DC", from which no number can be subtracted; the float the sort
\* returns on failure cannot be indexed.
default_parser(filepath, x_col, y_col, separator) ==
    IF separator # filepath.separator
    THEN {Parsed(filepath, x_col, y_col, separator, <<>>, <<>>, "IndexError")}
    ELSE IF y_col = 3
    THEN {Parsed(filepath, x_col, y_col, separator, <<>>, <<>>, "TypeError")}
    ELSE {IF s.exc # ""
          THEN Parsed(filepath, x_col, y_col, separator, <<>>, <<>>, s.exc)
          ELSE IF ~IsNdArray(s.ret)
          THEN Parsed(filepath, x_col, y_col, separator, <<>>, <<>>, "TypeError")
          ELSE Parsed(filepath, x_col, y_col, separator,
                      Column(s.ret, x_col), Column(s.ret, y_col), "") :
             s \in sort_bidimensional_array_mutually(
                       DarkSubtracted(filepath, y_col, filepath.dark[2]), 0, x_col)}

---------------------------------------------------------------------------
(* The file-based factory.                                                 *)

\* what from_files leaves: the instance, the exception, the route it took
\* and the parser calls it made
Filed(o, e, r, p) == [obj |-> o, exc |-> e, route |-> r, parses |-> p]

\* the compatibility test on the two parsed independent arrays
compatible_lengths_only(dep_ref, dep_meas) == Len(dep_ref) = Len(dep_meas)

compatible(dep_ref, dep_meas) ==
    IF Len(dep_ref) = Len(dep_meas)
    THEN \A i \in 1..Len(dep_ref) : dep_ref[i] = dep_meas[i]
    ELSE FALSE

\* the call of the constructor, for compatible data
DirectRoute(p1, p2) ==
    CHOOSE f \in {Filed(r.obj, r.exc, "direct", <<p1, p2>>) :
                    r \in {Instantiate(TransmitanceMeas1D_init(
                               NewInstance("TransmitanceMeas1D"), Arr1(p1.val), Arr1(p2.val),
                               Float(0), Float(0), Arr1(p1.dep), PyNone, PyNone, NoCallable))}} : TRUE

\* the call of from_ragged_data, for incompatible data
RaggedRoute(p1, p2, ref_ref_func, p) ==
    CHOOSE f \in {Filed(r.obj, r.exc, "ragged", p) :
                    r \in {from_ragged_data(Arr1(p1.dep), Arr1(p1.val), Arr1(p2.dep),
                                            Arr1(p2.val), Float(0), Float(0), ref_ref_func)}} : TRUE

\* incompatible data and a ref_ref_filepath: the template is the spline
\* through the third file's points
TemplateRoute(p1, p2, p3) ==
    IF p3.exc # "" THEN Filed(NoInstance, p3.exc, "ragged", <<p1, p2, p3>>)
    ELSE IF CubicSplineRaises(p3.dep, p3.val)
    THEN Filed(NoInstance, "ValueError", "ragged", <<p1, p2, p3>>)
    ELSE RaggedRoute(p1, p2, CubicSpline(p3.dep, p3.val), <<p1, p2, p3>>)

\* from_files once both primary files are parsed
Dispatch(p1, p2, ref_ref_filepath) ==
    IF compatible(p1.dep, p2.dep) THEN {DirectRoute(p1, p2)}
    ELSE IF ref_ref_filepath = NoFile THEN {RaggedRoute(p1, p2, NoCallable, <<p1, p2>>)}
    ELSE {TemplateRoute(p1, p2, p3) :
             p3 \in default_parser(ref_ref_filepath, default_x_col, default_y_col,
                                   default_separator)}

\* from_files(ref_filepath, meas_filepath, ref_ref_filepath,
\* **parsing_arguments): the set of its possible outcomes; the parsing
\* arguments are accepted and not used
from_files(ref_filepath, meas_filepath, ref_ref_filepath, parsing_arguments) ==
    UNION {IF p1.exc # "" THEN {Filed(NoInstance, p1.exc, "", <<p1>>)}
           ELSE UNION {IF p2.exc # "" THEN {Filed(NoInstance, p2.exc, "", <<p1, p2>>)}
                       ELSE Dispatch(p1, p2, ref_ref_filepath) :
                          p2 \in default_parser(meas_filepath, default_x_col,
                                                default_y_col, default_separator)} :
              p1 \in default_parser(ref_filepath, default_x_col, default_y_col,
                                    default_separator)}

---------------------------------------------------------------------------
(* The caller: one construction, then any sequence of method calls.        *)

PyInstance == [type |-> "instance", shape |-> <<>>, data |-> <<>>]

NoCall ==
    [op |-> "none", arrs |-> <<>>, nums |-> <<>>, fn |-> NoCallable, ints |-> <<>>,
     strs |-> <<>>, files |-> <<>>, args |-> <<>>]
Call(op, arrs, nums, fn) == [NoCall EXCEPT !.op = op, !.arrs = arrs, !.nums = nums, !.fn = fn]

\* the array the caller passed to a utility, as it is after the call, and
\* whether the value returned is that same array object
NotPassed == [array |-> PyNone, returned |-> FALSE]
Passed(a, same) == [array |-> a, returned |-> same]

NoRet == [val |-> PyNone, fn |-> NoCallable, flag |-> FALSE]
RetVal(v) == [val |-> v, fn |-> NoCallable, flag |-> FALSE]
RetBool(b) == [val |-> [type |-> "bool", shape |-> <<>>, data |-> <<>>], fn |-> NoCallable, flag |-> b]
RetFn(f) == [val |-> [type |-> "callable", shape |-> <<>>, data |-> <<>>], fn |-> f, flag |-> FALSE]

\* the values the caller draws its arguments from
Pattern(a, b, n) == [i \in 1..n |-> Float((a + b * i) % 3)]
Ramp(start, n) == [i \in 1..n |-> RAdd[start, Float(i - 1)]]

Values(n) == {Pattern(1, 1, n), Pattern(2, 0, n), Pattern(0, 2, n)}
FewValues(n) == {Pattern(1, 1, n), Pattern(2, 0, n)}

Arrays1D == UNION {{Arr1(s) : s \in Values(n)} : n \in 0..MaxLen}
Arrays2D == {NdArray(<<2, 2>>, Pattern(1, 1, 4)), NdArray(<<1, 2>>, Pattern(1, 1, 2))}
Lists == {PyList(<<2>>, Pattern(1, 1, 2))}

ValueInputs == Arrays1D \cup Arrays2D \cup Lists

DepArrays == {Arr1(Ramp(Float(0), n)) : n \in 0..MaxLen}
DepInputs == {PyNone} \cup DepArrays
             \cup {Arr1(Pattern(1, 0, 2)), NdArray(<<2, 2>>, Ramp(Float(0), 4))}

RefOffsets == {Float(0), Float(-1)}
MeasOffsets == {Float(0), Frac[1, 2]}

\* a template for the reference's dependence on the independent variable
Template == CubicSpline(Ramp(Float(0), 4), <<Float(1), Float(2), Float(4), Float(7)>>)

RaggedDepRef == DepArrays \cup {Arr1(Pattern(1, 0, 2)), PyList(<<2>>, Ramp(Float(0), 2))}
RaggedRef == UNION {{Arr1(s) : s \in FewValues(n)} : n \in 0..MaxLen}
             \cup {NdArray(<<1, 2>>, Pattern(1, 1, 2))}
RaggedDepMeas == UNION {{Arr1(Ramp(s, n)) : s \in {Float(0), Frac[1, 2]}} : n \in 0..MaxLen}
RaggedMeas == {Arr1(Pattern(1, 1, n)) : n \in 0..MaxLen}

\* the inputs of from_ragged_data the model covers: with a template, those
\* whose fit is well posed
RaggedCovered(dep_ref, ref, ref_offset, ref_ref_func) ==
    IF ref_ref_func.type = "None" THEN TRUE
    ELSE IF ~IsNdArray(dep_ref) \/ ~IsNdArray(ref) THEN TRUE
    ELSE IF np_ndim(dep_ref) # 1 \/ np_shape(dep_ref) # np_shape(ref) THEN TRUE
    ELSE IF Len(ref.data) < 2 THEN TRUE
    ELSE FitWellPosed(ref_ref_func, dep_ref.data, AddScalar(ref, ref_offset).data)

\* what the caller keeps of a construction
NoCaller ==
    [arrays |-> <<>>, built |-> NoInstance, ref_offsets |-> Float(0),
     meas_offsets |-> Float(0), corrections |-> 0]
Kept(arrays, o) == [NoCaller EXCEPT !.arrays = arrays, !.built = o]

\* the parameter of __init__ as which the k-th array of the call that made
\* obj was handed over ("" when __init__ got an array built by the factory)
HandedOverAs(op, k) ==
    IF op \in {"TransmitanceMeas", "TransmitanceMeas1D"} THEN <<"ref", "meas", "dep">>[k]
    ELSE IF op = "from_ragged_data" THEN <<"", "", "dep", "">>[k]
    ELSE ""

\* the caller's arrays after an addition in place to the attribute that is
\* the array object of parameter alias
AddedInPlace(arrays, op, alias, offset) ==
    [k \in 1..Len(arrays) |->
        IF alias # "" /\ HandedOverAs(op, k) = alias /\ IsNdArray(arrays[k])
        THEN AddScalar(arrays[k], offset)
        ELSE arrays[k]]

Corrections == {Frac[1, 2], Float(-1)}

Init ==
    /\ call = NoCall
    /\ made = NoCall
    /\ obj = NoInstance
    /\ ret = NoRet
    /\ exc = ""
    /\ route = ""
    /\ parses = <<>>
    /\ passed = NotPassed
    /\ caller = NoCaller
    /\ colls = <<>>
    /\ next_id_ = [cls \in {"ObjectCollection"} |-> 0]

\* TransmitanceMeas(ref, meas, ref_offset, meas_offset, dep)
NewTransmitanceMeas ==
    /\ made.op = "none"
    /\ \E ref \in ValueInputs, meas \in ValueInputs, dep \in DepInputs,
          ro \in RefOffsets, mo \in MeasOffsets :
          \E r \in {Instantiate(TransmitanceMeas_init(NewInstance("TransmitanceMeas"),
                                                      ref, meas, ro, mo, dep))} :
              /\ call' = Call("TransmitanceMeas", <<ref, meas, dep>>, <<ro, mo>>, NoCallable)
              /\ made' = call'
              /\ caller' = Kept(call'.arrs, r.obj)
              /\ obj' = r.obj
              /\ exc' = r.exc
              /\ ret' = IF r.exc = "" THEN RetVal(PyInstance) ELSE NoRet
    /\ UNCHANGED <<route, parses, passed, colls, next_id_>>

\* TransmitanceMeas1D(ref, meas, ref_offset, meas_offset, dep): the direct
\* constructor as an ordinary caller uses it
NewTransmitanceMeas1D ==
    /\ made.op = "none"
    /\ \E ref \in ValueInputs, meas \in ValueInputs, dep \in DepInputs,
          ro \in RefOffsets, mo \in MeasOffsets :
          \E r \in {Instantiate(TransmitanceMeas1D_init(NewInstance("TransmitanceMeas1D"),
                                   ref, meas, ro, mo, dep, PyNone, PyNone, NoCallable))} :
              /\ call' = Call("TransmitanceMeas1D", <<ref, meas, dep>>, <<ro, mo>>, NoCallable)
              /\ made' = call'
              /\ caller' = Kept(call'.arrs, r.obj)
              /\ obj' = r.obj
              /\ exc' = r.exc
              /\ ret' = IF r.exc = "" THEN RetVal(PyInstance) ELSE NoRet
    /\ UNCHANGED <<route, parses, passed, colls, next_id_>>

\* TransmitanceMeas1D.from_ragged_data(dep_ref, ref, dep_meas, meas, ...)
FromRaggedData ==
    /\ made.op = "none"
    /\ \E dep_ref \in RaggedDepRef, ref \in RaggedRef, dep_meas \in RaggedDepMeas,
          meas \in RaggedMeas, ro \in RefOffsets, mo \in MeasOffsets,
          f \in {NoCallable, Template} :
          /\ RaggedCovered(dep_ref, ref, ro, f)
          /\ \E r \in {from_ragged_data(dep_ref, ref, dep_meas, meas, ro, mo, f)} :
                 /\ call' = Call("from_ragged_data", <<dep_ref, ref, dep_meas, meas>>,
                                 <<ro, mo>>, f)
                 /\ made' = call'
                 /\ caller' = Kept(call'.arrs, r.obj)
                 /\ obj' = r.obj
                 /\ exc' = r.exc
                 /\ ret' = IF r.exc # "" THEN NoRet
                           ELSE IF r.obj.cls = "none" THEN RetVal(r.ret)
                           ELSE RetVal(PyInstance)
    /\ UNCHANGED <<route, parses, passed, colls, next_id_>>

\* obj.check_compatibility()
CheckCompatibility ==
    /\ obj.cls # "none"
    /\ call' = Call("check_compatibility", <<>>, <<>>, NoCallable)
    /\ IF CompatibilityReadable(obj)
       THEN ret' = RetBool(check_compatibility(obj)) /\ exc' = ""
       ELSE ret' = NoRet /\ exc' = "AttributeError"
    /\ UNCHANGED <<made, obj, route, parses, passed, caller, colls, next_id_>>

\* obj.get_transmitance()
GetTransmitance ==
    /\ obj.cls # "none"
    /\ call' = Call("get_transmitance", <<>>, <<>>, NoCallable)
    /\ \E r \in {get_transmitance(obj)} :
           /\ obj' = r.self
           /\ exc' = r.exc
           /\ ret' = IF r.exc = "" THEN RetVal(r.ret) ELSE NoRet
    /\ UNCHANGED <<made, route, parses, passed, caller, colls, next_id_>>

\* obj.get_refInterpolator()
GetRefInterpolator ==
    /\ obj.cls = "TransmitanceMeas1D"
    /\ call' = Call("get_refInterpolator", <<>>, <<>>, NoCallable)
    /\ \E r \in {get_refInterpolator(obj)} :
           /\ exc' = r.exc
           /\ ret' = IF r.exc # "" THEN NoRet
                     ELSE IF r.fn.type = "None" THEN RetVal(PyNone)
                     ELSE RetFn(r.fn)
    /\ UNCHANGED <<made, obj, route, parses, passed, caller, colls, next_id_>>

\* obj.correct_ref(offset)
CorrectRef ==
    /\ obj.cls # "none"
    /\ caller.corrections < MaxCorrections
    /\ \E offset \in Corrections :
          \E r \in {correct_ref(obj, offset)} :
              /\ call' = Call("correct_ref", <<>>, <<offset>>, NoCallable)
              /\ obj' = r.self
              /\ exc' = r.exc
              /\ ret' = NoRet
              /\ caller' = IF r.exc # "" THEN [caller EXCEPT !.corrections = @ + 1]
                            ELSE [caller EXCEPT
                                     !.corrections = @ + 1,
                                     !.ref_offsets = RAdd[@, offset],
                                     !.arrays = AddedInPlace(@, made.op, obj.aliases.ref_,
                                                             offset)]
    /\ UNCHANGED <<made, route, parses, passed, colls, next_id_>>

\* obj.correct_meas(offset)
CorrectMeas ==
    /\ obj.cls # "none"
    /\ caller.corrections < MaxCorrections
    /\ \E offset \in Corrections :
          \E r \in {correct_meas(obj, offset)} :
              /\ call' = Call("correct_meas", <<>>, <<offset>>, NoCallable)
              /\ obj' = r.self
              /\ exc' = r.exc
              /\ ret' = NoRet
              /\ caller' = IF r.exc # "" THEN [caller EXCEPT !.corrections = @ + 1]
                            ELSE [caller EXCEPT
                                     !.corrections = @ + 1,
                                     !.meas_offsets = RAdd[@, offset],
                                     !.arrays = AddedInPlace(@, made.op, obj.aliases.meas_,
                                                             offset)]
    /\ UNCHANGED <<made, route, parses, passed, colls, next_id_>>

Next ==
    \/ NewTransmitanceMeas
    \/ NewTransmitanceMeas1D
    \/ FromRaggedData
    \/ CheckCompatibility
    \/ GetTransmitance
    \/ GetRefInterpolator
    \/ CorrectRef
    \/ CorrectMeas

Spec == Init /\ [][Next]_vars

---------------------------------------------------------------------------
(* The caller of the file-based factory and of the parser: its first call  *)
(* is one of the two static entry points, which keep no state between      *)
(* calls; the method calls on the instance follow.                         *)

Row4(t, avg, std, wl) == <<Float(t), Float(avg), Float(std), Float(wl)>>
Dark(t, avg, std) == <<Float(t), Float(avg), Float(std)>>

\* four samples, written out of order
FileA ==
    File("\t", Dark(0, 1, 2),
         <<Row4(1, 5, 3, 3), Row4(2, 3, 2, 1), Row4(3, 4, 4, 2), Row4(4, 6, 2, 4)>>)
\* four samples at the wavelengths of FileA
FileB ==
    File("\t", Dark(0, 2, 1),
         <<Row4(1, 4, 1, 1), Row4(2, 3, 2, 2), Row4(3, 6, 1, 4), Row4(4, 5, 1, 3)>>)
\* four samples at other wavelengths
FileC ==
    File("\t", Dark(0, 1, 1),
         <<Row4(1, 2, 1, 1), Row4(2, 4, 1, 2), Row4(3, 3, 1, 3), Row4(4, 7, 1, 5)>>)
\* five samples
FileD ==
    File("\t", Dark(0, 1, 1),
         <<Row4(1, 2, 1, 5), Row4(2, 4, 1, 2), Row4(3, 3, 1, 3), Row4(4, 7, 1, 4),
           Row4(5, 5, 1, 1)>>)
\* two samples
FileE == File("\t", Dark(0, 1, 2), <<Row4(1, 5, 3, 2), Row4(2, 3, 4, 1)>>)
\* four samples, written with semicolons
FileF ==
    File(";", Dark(0, 1, 2),
         <<Row4(1, 5, 3, 3), Row4(2, 3, 2, 1), Row4(3, 4, 4, 2), Row4(4, 6, 2, 4)>>)
\* four samples, one wavelength measured twice
FileG ==
    File("\t", Dark(0, 1, 1),
         <<Row4(1, 2, 1, 2), Row4(2, 4, 2, 1), Row4(3, 3, 3, 2), Row4(4, 7, 4, 3)>>)
\* one sample
FileH == File("\t", Dark(0, 1, 2), <<Row4(1, 5, 3, 7)>>)

\* the reference and the template file give the splines their knots: at
\* most four samples (see SplineEval)
RefFiles == {FileA, FileB, FileC, FileE, FileF, FileG}
MeasFiles == RefFiles \cup {FileD, FileH}
RefRefFiles == {NoFile, FileA, FileC, FileE}

Columns == 0..3
Separators == {"\t", ";"}

\* the keyword arguments x_col, y_col, separator of a from_files call
ParsingArguments ==
    {<<default_x_col, default_y_col, default_separator>>, <<0, 2, "\t">>, <<3, 1, ";">>}

\* with a template file, the inputs whose fit is well posed
FilesCovered(ref_filepath, ref_ref_filepath) ==
    IF ref_ref_filepath = NoFile THEN TRUE
    ELSE \A p1 \in default_parser(ref_filepath, default_x_col, default_y_col,
                                  default_separator),
            p3 \in default_parser(ref_ref_filepath, default_x_col, default_y_col,
                                  default_separator) :
            IF p1.exc # "" \/ p3.exc # "" THEN TRUE
            ELSE IF CubicSplineRaises(p3.dep, p3.val) THEN TRUE
            ELSE RaggedCovered(Arr1(p1.dep), Arr1(p1.val), Float(0),
                               CubicSpline(p3.dep, p3.val))

\* TransmitanceMeas1D.from_files(ref_filepath, meas_filepath,
\* ref_ref_filepath, x_col=..., y_col=..., separator=...)
FromFiles ==
    /\ call.op = "none"
    /\ \E ref_filepath \in RefFiles, meas_filepath \in MeasFiles,
          ref_ref_filepath \in RefRefFiles, parsing_arguments \in ParsingArguments :
          /\ FilesCovered(ref_filepath, ref_ref_filepath)
          /\ \E r \in from_files(ref_filepath, meas_filepath, ref_ref_filepath,
                                 parsing_arguments) :
                 /\ call' = [NoCall EXCEPT
                                !.op = "from_files",
                                !.files = <<ref_filepath, meas_filepath, ref_ref_filepath>>,
                                !.ints = <<parsing_arguments[1], parsing_arguments[2]>>,
                                !.strs = <<parsing_arguments[3]>>]
                 /\ made' = call'
                 /\ caller' = Kept(call'.arrs, r.obj)
                 /\ obj' = r.obj
                 /\ exc' = r.exc
                 /\ route' = r.route
                 /\ parses' = r.parses
                 /\ ret' = IF r.exc # "" THEN NoRet
                           ELSE IF r.obj.cls = "none" THEN RetVal(Sentinel)
                           ELSE RetVal(PyInstance)
    /\ UNCHANGED <<passed, colls, next_id_>>

\* TransmitanceMeas1D.default_parser(filepath, x_col, y_col, separator)
DefaultParser ==
    /\ call.op = "none"
    /\ \E filepath \in MeasFiles, x_col \in Columns, y_col \in Columns,
          separator \in Separators :
          \E r \in default_parser(filepath, x_col, y_col, separator) :
              /\ call' = [NoCall EXCEPT !.op = "default_parser", !.files = <<filepath>>,
                                        !.ints = <<x_col, y_col>>, !.strs = <<separator>>]
              /\ parses' = <<r>>
              /\ exc' = r.exc
              /\ ret' = IF r.exc # "" THEN NoRet
                        ELSE RetVal([type |-> "tuple", shape |-> <<>>, data |-> <<>>])
    /\ UNCHANGED <<made, obj, route, passed, caller, colls, next_id_>>

NextFiles ==
    \/ FromFiles
    \/ DefaultParser
    \/ CheckCompatibility
    \/ GetTransmitance
    \/ GetRefInterpolator
    \/ CorrectRef
    \/ CorrectMeas

SpecFiles == Init /\ [][NextFiles]_vars

---------------------------------------------------------------------------
(* The caller of the array utilities, which keep no state between calls:   *)
(* one call per behaviour.                                                 *)

Scramble(a, b, n) == [k \in 1..n |-> Float((a + b * k * k) % 5)]

\* 2-D arrays of every shape up to MaxDim x MaxDim
Matrices ==
    {NdArray(<<nr, nc>>, Scramble(a, b, nr * nc)) :
        nr \in 1..MaxDim, nc \in 1..MaxDim, a \in 0..1, b \in 1..2}

Vectors == {Arr1(Scramble(a, 1, n)) : n \in 1..MaxDim, a \in 0..1}

Axes == {-1, 0, 1, 2}
Lines == -1..MaxDim

\* TransmitanceMeas1D.sort_bidimensional_array_mutually(bid_array, axis, line)
Sort ==
    /\ call.op = "none"
    /\ \E bid_array \in Matrices, axis \in Axes, line \in Lines :
        \E r \in sort_bidimensional_array_mutually(bid_array, axis, line) :
            /\ call' = [NoCall EXCEPT !.op = "sort_bidimensional_array_mutually",
                                      !.arrs = <<bid_array>>, !.ints = <<axis, line>>]
            /\ ret' = IF r.exc # "" THEN NoRet ELSE RetVal(r.ret)
            /\ exc' = r.exc
            /\ passed' = Passed(r.bid_array, r.same)
            /\ UNCHANGED <<made, obj, route, parses, caller, colls, next_id_>>

\* TransmitanceMeas1D.stick_together(arr1, arr2, axis)
StickTogether ==
    /\ call.op = "none"
    /\ \E arr1 \in Matrices \cup Vectors \cup Lists, arr2 \in Matrices \cup Vectors,
       axis \in {0, 1} :
        \E r \in {stick_together(arr1, arr2, axis)} :
            /\ call' = [NoCall EXCEPT !.op = "stick_together", !.arrs = <<arr1, arr2>>,
                                      !.ints = <<axis>>]
            /\ ret' = RetVal(r)
            /\ exc' = ""
            /\ passed' = NotPassed
            /\ UNCHANGED <<made, obj, route, parses, caller, colls, next_id_>>

NextUtil ==
    \/ Sort
    \/ StickTogether

SpecUtil == Init /\ [][NextUtil]_vars

---------------------------------------------------------------------------
(* class ObjectCollection and class TransmitanceMeas1DCollection.  A       *)
(* member is a record [type, tag]: its exact runtime type and what tells   *)
(* it from the other objects of the type.  A list argument is a record     *)
(* [type, items]: type "None" for an argument left out, "list" for a       *)
(* list, "tuple" for another sequence; an item of member_types is a        *)
(* record [is_type, name].  A collection is the record of its attributes.  *)

NoCollection ==
    [cls |-> "none", name_ |-> "", ID_ |-> -1, members_ |-> <<>>, member_types_ |-> <<>>,
     fRestrictive_ |-> FALSE, fRestrictivenessIsLocked_ |-> FALSE]

NoList == [type |-> "None", items |-> <<>>]
ListOf(items) == [type |-> "list", items |-> items]
TupleOf(items) == [type |-> "tuple", items |-> items]
TypeObject(name) == [is_type |-> TRUE, name |-> name]
Instance(type, tag) == [type |-> type, tag |-> tag]

Range(seq) == {seq[i] : i \in 1..Len(seq)}

\* get_new_ID(cls): cls.next_id_ += 1 reads the attribute where the class
\* or its base has it and assigns it on cls itself; ids is the next_id_
\* of every class that has the attribute
get_new_ID(cls, ids) ==
    LET read == IF cls \in DOMAIN ids THEN ids[cls] ELSE ids["ObjectCollection"]
        assigned == [c \in DOMAIN ids \cup {cls} |-> IF c = cls THEN read + 1 ELSE ids[c]]
    IN  [ID |-> assigned[cls] - 1, next_id_ |-> assigned]

try_adding_always(self, candidate_element) ==
    [self EXCEPT !.members_ = Append(@, candidate_element)]

try_adding_an_element(self, candidate_element) ==
    IF self.fRestrictive_ = FALSE
    THEN [self EXCEPT !.members_ = Append(@, candidate_element)]
    ELSE IF candidate_element.type \in Range(self.member_types_)
         THEN [self EXCEPT !.members_ = Append(@, candidate_element)]
         ELSE self

lock_restrictiveness(self) == [self EXCEPT !.fRestrictivenessIsLocked_ = TRUE]

\* member_types_ after the loop of switch_restrictiveness over the members
WithMemberTypes(self) ==
    LET types[k \in 0..Len(self.members_)] ==
            IF k = 0 THEN self.member_types_
            ELSE IF self.members_[k].type \in Range(types[k - 1]) THEN types[k - 1]
                 ELSE Append(types[k - 1], self.members_[k].type)
    IN  types[Len(self.members_)]

switch_restrictiveness_unlocked(self) ==
    IF self.fRestrictive_ = FALSE
    THEN [self EXCEPT !.member_types_ = WithMemberTypes(self), !.fRestrictive_ = TRUE]
    ELSE [self EXCEPT !.fRestrictive_ = FALSE]

switch_restrictiveness(self) ==
    IF ~self.fRestrictivenessIsLocked_
    THEN IF self.fRestrictive_ = FALSE
         THEN [self EXCEPT !.member_types_ = WithMemberTypes(self), !.fRestrictive_ = TRUE]
         ELSE [self EXCEPT !.fRestrictive_ = FALSE]
    ELSE self

\* self after the loop of __init__ over init_members
WithInitMembers(self, init_members) ==
    LET added[k \in 0..Len(init_members)] ==
            IF k = 0 THEN self
            ELSE try_adding_an_element(added[k - 1], init_members[k])
    IN  added[Len(init_members)]

\* what an initialiser of a collection leaves: the instance, the value
\* returned, the class attributes
Initialised(self, val, ids) == [self |-> self, ret |-> val, next_id_ |-> ids]

ObjectCollection_init(self, collection_name, member_types, init_members, restrictive, ids) ==
    IF member_types.type \notin {"None", "list"} THEN Initialised(self, Sentinel, ids)
    ELSE IF \E i \in 1..Len(member_types.items) : ~member_types.items[i].is_type
    THEN Initialised(self, Sentinel, ids)
    ELSE LET new == get_new_ID(self.cls, ids)
             s1 == [self EXCEPT
                       !.member_types_ =
                           [i \in 1..Len(member_types.items) |-> member_types.items[i].name],
                       !.fRestrictive_ = restrictive,
                       !.fRestrictivenessIsLocked_ = FALSE,
                       !.name_ = collection_name,
                       !.ID_ = new.ID,
                       !.members_ = <<>>]
         IN  IF init_members.type = "None" THEN Initialised(s1, PyNone, new.next_id_)
             ELSE IF init_members.type # "list" THEN Initialised(s1, Sentinel, new.next_id_)
             ELSE Initialised(WithInitMembers(s1, init_members.items), PyNone, new.next_id_)

\* the value super().__init__ returns is dropped
TransmitanceMeas1DCollection_init(self, collection_name, init_members, ids) ==
    LET base == ObjectCollection_init(self, collection_name,
                                      ListOf(<<TypeObject("TransmitanceMeas1D")>>),
                                      init_members, TRUE, ids)
    IN  Initialised(lock_restrictiveness(base.self), PyNone, base.next_id_)

---------------------------------------------------------------------------
(* The caller of the collections: it constructs collections of both        *)
(* classes in any order and calls the methods of any of them; every list   *)
(* it passes is a new list.                                                *)

Candidates == {Instance("TransmitanceMeas1D", 1), Instance("TransmitanceMeas", 2)}

TypeLists ==
    {NoList, ListOf(<<TypeObject("TransmitanceMeas1D")>>),
     TupleOf(<<TypeObject("TransmitanceMeas1D")>>),
     ListOf(<<[is_type |-> FALSE, name |-> "TransmitanceMeas1D"]>>)}

MemberLists ==
    {NoList,
     ListOf(<<Instance("TransmitanceMeas", 2), Instance("TransmitanceMeas1D", 1)>>),
     TupleOf(<<Instance("TransmitanceMeas1D", 1)>>)}

\* the collections the caller holds
Held == {i \in 1..Len(colls) : colls[i].cls # "none"}

\* the collection the caller goes on to use: the methods read and write self
\* only, so the caller calls them on the first collection it holds and keeps
\* the later ones as constructed
InUse == {i \in Held : \A j \in Held : i <= j}

NewCollection(cls) == [NoCollection EXCEPT !.cls = cls]

\* cls(...) for a collection class: the caller gets the instance unless
\* __init__ returned something other than None
Constructed(r) == IF r.ret.type = "None" THEN r.self ELSE NoCollection

\* ObjectCollection(collection_name, member_types, init_members, restrictive)
NewObjectCollection ==
    /\ Len(colls) < MaxColls
    /\ \E member_types \in TypeLists, init_members \in MemberLists, restrictive \in BOOLEAN :
          \E r \in {ObjectCollection_init(NewCollection("ObjectCollection"), "c",
                                          member_types, init_members, restrictive,
                                          next_id_)} :
              /\ call' = [NoCall EXCEPT !.op = "ObjectCollection",
                                        !.ints = <<Len(colls) + 1>>,
                                        !.args = <<member_types, init_members, restrictive>>]
              /\ colls' = Append(colls, Constructed(r))
              /\ next_id_' = r.next_id_
              /\ exc' = IF r.ret.type = "None" THEN "" ELSE "TypeError"
              /\ ret' = IF r.ret.type = "None" THEN RetVal(PyInstance) ELSE NoRet
    /\ UNCHANGED <<made, obj, route, parses, passed, caller>>

\* TransmitanceMeas1DCollection(collection_name, init_members)
NewTransmitanceMeas1DCollection ==
    /\ Len(colls) < MaxColls
    /\ \E init_members \in MemberLists :
          \E r \in {TransmitanceMeas1DCollection_init(
                        NewCollection("TransmitanceMeas1DCollection"), "c", init_members,
                        next_id_)} :
              /\ call' = [NoCall EXCEPT !.op = "TransmitanceMeas1DCollection",
                                        !.ints = <<Len(colls) + 1>>,
                                        !.args = <<init_members>>]
              /\ colls' = Append(colls, Constructed(r))
              /\ next_id_' = r.next_id_
              /\ exc' = ""
              /\ ret' = RetVal(PyInstance)
    /\ UNCHANGED <<made, obj, route, parses, passed, caller>>

\* colls[i].lock_restrictiveness()
LockRestrictiveness ==
    /\ \E i \in InUse :
          /\ call' = [NoCall EXCEPT !.op = "lock_restrictiveness", !.ints = <<i>>]
          /\ colls' = [colls EXCEPT ![i] = lock_restrictiveness(@)]
    /\ exc' = ""
    /\ ret' = NoRet
    /\ UNCHANGED <<made, obj, route, parses, passed, caller, next_id_>>

\* colls[i].switch_restrictiveness()
SwitchRestrictiveness ==
    /\ \E i \in InUse :
          /\ call' = [NoCall EXCEPT !.op = "switch_restrictiveness", !.ints = <<i>>]
          /\ colls' = [colls EXCEPT ![i] = switch_restrictiveness(@)]
    /\ exc' = ""
    /\ ret' = NoRet
    /\ UNCHANGED <<made, obj, route, parses, passed, caller, next_id_>>

\* colls[i].try_adding_an_element(candidate_element)
TryAddingAnElement ==
    /\ \E i \in InUse, candidate_element \in Candidates :
          /\ Len(colls[i].members_) < MaxMembers
          /\ call' = [NoCall EXCEPT !.op = "try_adding_an_element", !.ints = <<i>>,
                                    !.args = <<candidate_element>>]
          /\ colls' = [colls EXCEPT ![i] = try_adding_an_element(@, candidate_element)]
    /\ exc' = ""
    /\ ret' = NoRet
    /\ UNCHANGED <<made, obj, route, parses, passed, caller, next_id_>>

NextColl ==
    \/ NewObjectCollection
    \/ NewTransmitanceMeas1DCollection
    \/ LockRestrictiveness
    \/ SwitchRestrictiveness
    \/ TryAddingAnElement

SpecColl == Init /\ [][NextColl]_vars

---------------------------------------------------------------------------
(* Claims about the measurement classes, checked under Spec.               *)

\* the arguments of the call that made obj
ArgRef == made.arrs[1]
ArgMeas == made.arrs[2]
ArgDep == made.arrs[3]
ArgRefOffset == made.nums[1]
ArgMeasOffset == made.nums[2]

\* C1: for a TransmitanceMeas built from equal-shaped arrays,
\* check_compatibility() returns True and get_transmitance() returns the
\* array of the shape of the inputs whose entry at each position is the
\* quotient of the stored (offset-applied) filtered entry by the stored
\* reference entry: that entry times the reference entry gives the filtered
\* entry (where the stored reference entry is zero it is inf or nan).  The
\* stored arrays are the inputs plus their offsets until they are corrected.
C1_RatioOfStoredArrays ==
    (made.op = "TransmitanceMeas" /\ obj.cls # "none") =>
        /\ caller.corrections = 0 =>
              /\ obj.ref_ = AddScalar(ArgRef, ArgRefOffset)
              /\ obj.meas_ = AddScalar(ArgMeas, ArgMeasOffset)
        /\ call.op = "check_compatibility" => (exc = "" /\ ret.flag)
        /\ call.op = "get_transmitance" =>
              /\ exc = ""
              /\ ret.val.type = "ndarray"
              /\ ret.val.shape = ArgRef.shape
              /\ Len(ret.val.data) = Len(ArgRef.data)
              /\ \A k \in 1..Len(ret.val.data) :
                    IF obj.ref_.data[k] # Float(0)
                    THEN RMul[ret.val.data[k], obj.ref_.data[k]] = obj.meas_.data[k]
                    ELSE ~IsFinite(ret.val.data[k])

\* C1's case: a ratio was computed from offset-corrected arrays of several
\* entries and is not entrywise a whole number
C1_Witness ==
    /\ made.op = "TransmitanceMeas"
    /\ call.op = "get_transmitance"
    /\ exc = ""
    /\ ret.val.type = "ndarray"
    /\ Len(ret.val.data) >= 2
    /\ ArgRefOffset # Float(0)
    /\ ArgMeasOffset # Float(0)
    /\ \E k \in 1..Len(ret.val.data) : ret.val.data[k][2] > 1

\* the numeric arrays handed to a constructor are of inconsistent shapes
ShapesInconsistent ==
    \/ np_shape(ArgRef) # np_shape(ArgMeas)
    \/ ArgDep.type # "None" /\ np_shape(ArgDep) # np_shape(ArgRef)
    \/ made.op = "TransmitanceMeas1D" /\ np_ndim(ArgRef) # 1

NumericArguments ==
    /\ IsNdArray(ArgRef)
    /\ IsNdArray(ArgMeas)
    /\ ArgDep.type \in {"None", "ndarray"}

\* C2: constructing a TransmitanceMeas or a TransmitanceMeas1D from numeric
\* arrays of inconsistent shapes fails: an exception reaches the caller,
\* who obtains no instance.
C2_ShapeMismatchAborts ==
    (/\ made.op \in {"TransmitanceMeas", "TransmitanceMeas1D"}
     /\ NumericArguments
     /\ ShapesInconsistent) => (obj.cls = "none" /\ exc # "")

\* C2's case: the 1-D constructor was called with a reference and a
\* filtered array that agree and an independent array that does not
C2_Witness ==
    /\ made.op = "TransmitanceMeas1D"
    /\ NumericArguments
    /\ np_ndim(ArgRef) = 1
    /\ np_shape(ArgRef) = np_shape(ArgMeas)
    /\ ArgDep.type = "ndarray"
    /\ np_shape(ArgDep) # np_shape(ArgRef)
    /\ obj.cls = "none"
    /\ exc = "TypeError"

\* C3: calling the TransmitanceMeas1D constructor with a reference or a
\* filtered argument that is not a numeric array never yields an instance.
C3_TypeMismatchIsFatal ==
    (/\ made.op = "TransmitanceMeas1D"
     /\ (~IsNdArray(ArgRef) \/ ~IsNdArray(ArgMeas))) => obj.cls = "none"

\* C4: after the direct construction of a TransmitanceMeas1D with an
\* independent array, get_refInterpolator() returns a callable that
\* reproduces reference[i] at independent[i].
C4_ReferenceModelStored ==
    (/\ made.op = "TransmitanceMeas1D"
     /\ obj.cls # "none"
     /\ ArgDep.type # "None"
     /\ call.op = "get_refInterpolator") =>
        /\ exc = ""
        /\ ret.val.type = "callable"
        /\ \A i \in 1..Len(ArgDep.data) : CallAt(ret.fn, ArgDep.data[i]) = ArgRef.data[i]

\* the arguments of from_ragged_data
ArgDepRef == made.arrs[1]
ArgRaggedRef == made.arrs[2]
ArgDepMeas == made.arrs[3]
ArgRaggedMeas == made.arrs[4]

\* C5: in the instance from_ragged_data returns, raw_ref_ has one row per
\* reference sample, dep_ref in column 0 and ref as supplied in column 1,
\* and raw_meas_ has one row per filtered sample, dep_meas in column 0 and
\* meas as supplied in column 1.
C5_RawDataAsSupplied ==
    (made.op = "from_ragged_data" /\ obj.cls # "none") =>
        /\ obj.raw_ref_.shape = <<Len(ArgRaggedRef.data), 2>>
        /\ \A i \in 1..Len(ArgRaggedRef.data) :
              /\ At2(obj.raw_ref_, i - 1, 0) = ArgDepRef.data[i]
              /\ At2(obj.raw_ref_, i - 1, 1) = ArgRaggedRef.data[i]
        /\ obj.raw_meas_.shape = <<Len(ArgRaggedMeas.data), 2>>
        /\ \A i \in 1..Len(ArgRaggedMeas.data) :
              /\ At2(obj.raw_meas_, i - 1, 0) = ArgDepMeas.data[i]
              /\ At2(obj.raw_meas_, i - 1, 1) = ArgRaggedMeas.data[i]

\* the reference samples the model is built from: ref + ref_offset
OffsetReference == [i \in 1..Len(ArgRaggedRef.data) |-> RAdd[ArgRaggedRef.data[i], ArgRefOffset]]

\* the residuals of a callable at the reference samples
Residuals(f) ==
    [i \in 1..Len(ArgDepRef.data) |-> RSub[CallAt(f, ArgDepRef.data[i]), OffsetReference[i]]]

\* f is the model from_ragged_data builds from (dep_ref, ref + ref_offset):
\* without a template the spline through these points, with a template its
\* scaled and shifted copy that is the least-squares fit to them (the
\* residuals sum to zero and are orthogonal to the template)
BuiltFromReference(f) ==
    IF made.fn.type = "None"
    THEN /\ f.type = "CubicSpline"
         /\ f.x = ArgDepRef.data
         /\ \A i \in 1..Len(ArgDepRef.data) : Residuals(f)[i] = Float(0)
    ELSE /\ f.type = "vectorize"
         /\ f.x = made.fn.x
         /\ f.y = made.fn.y
         /\ RSum[Residuals(f)] = Float(0)
         /\ RSum[Products(Residuals(f), TemplateAt(made.fn, ArgDepRef.data))] = Float(0)

\* C6: the instance from_ragged_data returns has dep_ = dep_meas,
\* meas_ = meas + meas_offset (the offset added once) and
\* ref_[i] = model(dep_meas[i]) for the stored reference model, which is
\* built from (dep_ref, ref + ref_offset); the three arrays have the length
\* of dep_meas, so that check_compatibility() is true.
C6_ReconciledInstance ==
    (call.op = "from_ragged_data" /\ obj.cls # "none") =>
        /\ obj.dep_is_available_ = "True"
        /\ obj.dep_ = ArgDepMeas
        /\ obj.meas_.shape = ArgDepMeas.shape
        /\ \A i \in 1..Len(ArgRaggedMeas.data) :
              obj.meas_.data[i] = RAdd[ArgRaggedMeas.data[i], ArgMeasOffset]
        /\ get_refInterpolator(obj).exc = ""
        /\ get_refInterpolator(obj).fn = obj.refInterpolator_
        /\ BuiltFromReference(obj.refInterpolator_)
        /\ obj.ref_.shape = ArgDepMeas.shape
        /\ \A i \in 1..Len(ArgDepMeas.data) :
              obj.ref_.data[i] = CallAt(obj.refInterpolator_, ArgDepMeas.data[i])
        /\ check_compatibility(obj)

\* C6's case: series of different lengths were reconciled, with both
\* offsets, at a point that is no reference sample
C6_Witness ==
    /\ call.op = "from_ragged_data"
    /\ obj.cls # "none"
    /\ Len(ArgDepRef.data) # Len(ArgDepMeas.data)
    /\ ArgRefOffset # Float(0)
    /\ ArgMeasOffset # Float(0)
    /\ \E i \in 1..Len(ArgDepMeas.data) :
          /\ \A j \in 1..Len(ArgDepRef.data) : ArgDepMeas.data[i] # ArgDepRef.data[j]
          /\ obj.ref_.data[i][2] > 1

---------------------------------------------------------------------------
(* Claims about the file-based factory and the parser, checked under       *)
(* SpecFiles.                                                              *)

\* from_files parsed both primary files
ParsedBoth ==
    /\ made.op = "from_files"
    /\ Len(parses) >= 2
    /\ parses[1].exc = ""
    /\ parses[2].exc = ""

\* the two parsed independent arrays have equal length and equal entries
Aligned ==
    /\ Len(parses[1].dep) = Len(parses[2].dep)
    /\ \A i \in 1..Len(parses[1].dep) : parses[1].dep[i] = parses[2].dep[i]

\* C7: once from_files has parsed its two files it takes the direct route
\* exactly when the two parsed independent arrays have equal length and
\* are entrywise equal, and the ragged route otherwise; an instance of the
\* direct route has no raw data, an instance of the ragged route has
\* raw_ref_, raw_meas_ and the reference model (raw data present implies
\* model present).
C7_RouteByAlignment ==
    ParsedBoth =>
        /\ route \in {"direct", "ragged"}
        /\ route = "direct" <=> Aligned
        /\ (obj.cls # "none" /\ route = "direct") =>
              /\ obj.raw_ref_ = PyNone
              /\ obj.raw_meas_ = PyNone
        /\ (obj.cls # "none" /\ route = "ragged") =>
              /\ IsNdArray(obj.raw_ref_)
              /\ IsNdArray(obj.raw_meas_)
        /\ (obj.cls # "none" /\ (IsNdArray(obj.raw_ref_) \/ IsNdArray(obj.raw_meas_))) =>
              /\ obj.fInterpolator_ = "True"
              /\ obj.refInterpolator_.type \in {"CubicSpline", "vectorize"}

\* C7's case: two files with as many samples at different wavelengths were
\* reconciled into an instance
C7_Witness ==
    /\ ParsedBoth
    /\ Len(parses[1].dep) = Len(parses[2].dep)
    /\ ~Aligned
    /\ route = "ragged"
    /\ obj.cls = "TransmitanceMeas1D"
    /\ IsNdArray(obj.raw_ref_)

\* C8: every file from_files parses (reference, filtered, template) is
\* parsed with the x_col, y_col and separator the caller gave to from_files.
C8_ParsingArgumentsForwarded ==
    made.op = "from_files" =>
        \A i \in 1..Len(parses) :
            /\ parses[i].x_col = made.ints[1]
            /\ parses[i].y_col = made.ints[2]
            /\ parses[i].separator = made.strs[1]

\* C9: for a file with n >= 1 data rows read with its own delimiter, and
\* any independent column x_col and numeric value column y_col other than
\* x_col, default_parser returns two arrays of length n, the first
\* non-decreasing, whose pairs are the rows' (x_col entry, y_col entry
\* minus the dark row's y_col entry).
C9_ParserContract ==
    (/\ call.op = "default_parser"
     /\ call.strs[1] = call.files[1].separator
     /\ Len(call.files[1].rows) >= 1
     /\ call.ints[2] \in 0..2
     /\ call.ints[1] # call.ints[2]) =>
        LET filepath == call.files[1]
            n == Len(filepath.rows)
            x_col == call.ints[1]
            y_col == call.ints[2]
            dep == parses[1].dep
            val == parses[1].val
        IN  /\ exc = ""
            /\ Len(dep) = n
            /\ Len(val) = n
            /\ \A i \in 1..(n - 1) : ~RLess(dep[i + 1], dep[i])
            /\ \E p \in Permutations(1..n) :
                  \A i \in 1..n :
                      /\ dep[i] = filepath.rows[p[i]][x_col + 1]
                      /\ val[i] = RSub[filepath.rows[p[i]][y_col + 1], filepath.dark[y_col + 1]]

---------------------------------------------------------------------------
(* Claims about the array utilities, checked under SpecUtil.               *)

SortAxis == call.ints[1]
SortLine == call.ints[2]

\* C10: for a 2-D array and a key that names one of its columns,
\* sort_bidimensional_array_mutually with axis 0 returns an array of the
\* same shape whose key column is non-decreasing and whose rows are a
\* permutation of the rows of the input; with axis 1 and a key that names
\* one of its rows, the same with rows and columns exchanged.
C10_SortedPermutation ==
    (/\ call.op = "sort_bidimensional_array_mutually"
     /\ SortAxis \in {0, 1}
     /\ SortLine >= 0
     /\ SortLine < call.arrs[1].shape[IF SortAxis = 0 THEN 2 ELSE 1]) =>
        LET bid_array == call.arrs[1]
            nr == bid_array.shape[1]
            nc == bid_array.shape[2]
        IN  /\ exc = ""
            /\ IsNdArray(ret.val)
            /\ ret.val.shape = bid_array.shape
            /\ IF SortAxis = 0
               THEN /\ \A r \in 1..(nr - 1) :
                          ~RLess(At2(ret.val, r, SortLine), At2(ret.val, r - 1, SortLine))
                    /\ \E p \in Permutations(1..nr) :
                          \A r \in 1..nr : Row(ret.val, r - 1) = Row(bid_array, p[r] - 1)
               ELSE /\ \A c \in 1..(nc - 1) :
                          ~RLess(At2(ret.val, SortLine, c), At2(ret.val, SortLine, c - 1))
                    /\ \E p \in Permutations(1..nc) :
                          \A c \in 1..nc : Column(ret.val, c - 1) = Column(bid_array, p[c] - 1)

\* the key of a sort call names a column (axis 0) or a row (axis 1) of the array
KeyInRange ==
    /\ SortLine >= 0
    /\ SortLine < call.arrs[1].shape[IF SortAxis = 0 THEN 2 ELSE 1]

\* a sort call failed: it returned the failure value or raised
SortFailed == exc # "" \/ ~IsNdArray(ret.val)

\* C11: sort_bidimensional_array_mutually fails exactly when axis is not 0
\* or 1 or the key index is out of range (0..ncols-1 for axis 0,
\* 0..nrows-1 for axis 1); for axis 0 or 1 and an in-range key it returns
\* an array, whatever the shape of the input.
C11_FailsExactlyOnBadKey ==
    call.op = "sort_bidimensional_array_mutually" =>
        (SortFailed <=> (SortAxis \notin {0, 1} \/ ~KeyInRange))

\* C12: after a successful call of sort_bidimensional_array_mutually the
\* array the caller passed holds the entries it held before the call, and
\* the array returned is another object.
C12_SortReturnsCopy ==
    (call.op = "sort_bidimensional_array_mutually" /\ ~SortFailed) =>
        /\ passed.array = call.arrs[1]
        /\ ~passed.returned

\* an operand of stick_together as a 2-D array: a 1-D operand gets a new
\* axis at the target position
Promoted(a, axis) == IF np_ndim(a) = 1 THEN expand_dims(a, axis) ELSE a

\* the operands of a stick_together call are arrays of matching sizes
SizeCompatible ==
    /\ call.op = "stick_together"
    /\ IsNdArray(call.arrs[1])
    /\ IsNdArray(call.arrs[2])
    /\ OtherLen(Promoted(call.arrs[1], call.ints[1]), call.ints[1])
           = OtherLen(Promoted(call.arrs[2], call.ints[1]), call.ints[1])

\* C13: for size-compatible operands, each 1-D or 2-D, stick_together
\* returns the concatenation along axis of the first operand followed by
\* the second, each 1-D operand promoted to 2-D by a new axis at the target
\* position; the argument order is kept also when one operand is 2-D and
\* the other 1-D.
C13_StackedInArgumentOrder ==
    SizeCompatible =>
        /\ exc = ""
        /\ ret.val = concatenate(Promoted(call.arrs[1], call.ints[1]),
                                 Promoted(call.arrs[2], call.ints[1]), call.ints[1])

---------------------------------------------------------------------------
(* Claims about the corrections, checked under Spec.                       *)

\* the construction stored both arrays
StoredArrays == obj.cls # "none" /\ IsNdArray(caller.built.ref_) /\ IsNdArray(caller.built.meas_)

\* C17: after a construction that stored its arrays and any sequence of
\* correct_ref(x) / correct_meas(y) calls, ref_ is the constructed ref_
\* plus the sum of the reference corrections and meas_ the constructed
\* meas_ plus the sum of the filtered corrections, entry by entry; dep_,
\* the raw data, the reference model and the shapes are as constructed (so
\* that check_compatibility() keeps its value), the arrays the caller
\* passed are as it passed them, and no correction raises.
C17_CorrectionsAddUp ==
    StoredArrays =>
        /\ obj.ref_ = AddScalar(caller.built.ref_, caller.ref_offsets)
        /\ obj.meas_ = AddScalar(caller.built.meas_, caller.meas_offsets)
        /\ obj.dep_ = caller.built.dep_
        /\ obj.dep_is_available_ = caller.built.dep_is_available_
        /\ obj.raw_ref_ = caller.built.raw_ref_
        /\ obj.raw_meas_ = caller.built.raw_meas_
        /\ obj.refInterpolator_ = caller.built.refInterpolator_
        /\ check_compatibility(obj) = check_compatibility(caller.built)
        /\ caller.arrays = made.arrs
        /\ call.op \in {"correct_ref", "correct_meas"} => (exc = "" /\ ret = NoRet)

\* C17's case: both arrays of an instance with independent data were
\* corrected, the reference twice
C17_Witness ==
    /\ StoredArrays
    /\ made.op = "from_ragged_data"
    /\ call.op = "correct_ref"
    /\ caller.corrections = MaxCorrections
    /\ caller.ref_offsets \notin Corrections \cup {Float(0)}
    /\ obj.ref_ # caller.built.ref_
    /\ Len(obj.ref_.data) >= 2

---------------------------------------------------------------------------
(* Claims about the collections, checked under SpecColl.                   *)

\* C14: whatever the order in which collections of the two classes are
\* constructed, a collection constructed later has a larger ID_ than every
\* collection constructed earlier (so that no two collections share an ID_).
C14_IdentifiersIncrease ==
    \A i \in Held, j \in Held : i < j => colls[i].ID_ < colls[j].ID_

\* the collection the last call was made on
Target == call.ints[1]

\* C15: once a collection is locked, no call (switch_restrictiveness,
\* try_adding_an_element, lock_restrictiveness, a construction) changes
\* its fRestrictive_ or its member_types_, and it stays locked.
C15_LockIsLatch ==
    [][\A i \in Held :
          colls[i].fRestrictivenessIsLocked_ =>
              /\ colls'[i].fRestrictivenessIsLocked_
              /\ colls'[i].fRestrictive_ = colls[i].fRestrictive_
              /\ colls'[i].member_types_ = colls[i].member_types_]_vars

\* C15's case: switch_restrictiveness was called on a locked, unrestricted
\* collection with a member whose type is not in member_types_
C15_Witness ==
    /\ call.op = "switch_restrictiveness"
    /\ colls[Target].fRestrictivenessIsLocked_
    /\ ~colls[Target].fRestrictive_
    /\ Len(colls[Target].members_) >= 1
    /\ colls[Target].member_types_ = <<>>

\* every member of a restricted collection is of an allowed type
RestrictedMembersAllowed ==
    \A i \in Held :
        colls[i].fRestrictive_ =>
            \A k \in 1..Len(colls[i].members_) :
                colls[i].members_[k].type \in Range(colls[i].member_types_)

\* a call of try_adding_an_element appends the candidate to the members of
\* its collection when the collection is unrestricted or the candidate's
\* type is in member_types_, and changes nothing otherwise
AddsOrRejects ==
    call'.op = "try_adding_an_element" =>
        LET i == call'.ints[1]
            candidate_element == call'.args[1]
        IN  /\ i \in Held
            /\ Len(colls') = Len(colls)
            /\ \A j \in 1..Len(colls) : j # i => colls'[j] = colls[j]
            /\ IF \/ ~colls[i].fRestrictive_
                  \/ candidate_element.type \in Range(colls[i].member_types_)
               THEN colls'[i] = [colls[i] EXCEPT !.members_ = Append(@, candidate_element)]
               ELSE colls'[i] = colls[i]

\* C16: try_adding_an_element appends the member at the end of the
\* collection if the collection is unrestricted or the member's exact type
\* is in member_types_, and otherwise leaves members, member_types_ and
\* flags unchanged; after any sequence of calls every member of a
\* restricted collection is of a type in member_types_.
C16_AddRespectsRestriction == []RestrictedMembersAllowed /\ [][AddsOrRejects]_vars

\* C16's case: a collection that was switched to restricted, which made the
\* type of its members the allowed type, rejected a candidate of another type
C16_Witness ==
    /\ call.op = "try_adding_an_element"
    /\ colls[Target].cls = "ObjectCollection"
    /\ colls[Target].fRestrictive_
    /\ colls[Target].member_types_ = <<"TransmitanceMeas">>
    /\ call.args[1].type = "TransmitanceMeas1D"
    /\ Len(colls[Target].members_) >= 1
    /\ \A k \in 1..Len(colls[Target].members_) :
          colls[Target].members_[k].type = "TransmitanceMeas"

=============================================================================
